---- MODULE Spec2Model ----
(***************************************************************************)
(* ResumeList (src/src/components/ResumeList.tsx): a React component that  *)
(* lists a user's uploaded resumes and lets the user download, rename and  *)
(* delete them against a remote store (metadata table + blob storage).     *)
(*                                                                         *)
(* Every remote call is asynchronous.  A handler runs up to its await and  *)
(* issues the call; the store executes the call (or fails it, leaving the  *)
(* store as it was) when it is issued; the reply is delivered at any later *)
(* time, in any order with the other replies and events, and only then     *)
(* does the handler's continuation run.  A continuation works on the       *)
(* values its closure captured when the handler was invoked (resumes,      *)
(* editedName, userId, the resume argument), not on the current state.     *)
(***************************************************************************)
EXTENDS Integers, Sequences, FiniteSets, Bags, TLC

\* ------------------------------------------------------------------ bounds
\* Number of operations started over a whole run: uploads, and handler
\* invocations that issue a remote call.
MaxOps == 4

Users == {"u1", "u2"}
\* File names are sequences of characters; " " is the whitespace character.
UploadNames == {<<"a">>}
Drafts == {<<>>, <<" ">>, <<"a">>, <<"b">>}

Null == 0
NoUser == ""

VARIABLES
  db,          \* store: the metadata records (table "resumes")
  blobs,       \* store: the file paths that hold a blob (bucket "resumes")
  clock,       \* store: upload counter, the source of ids and uploaded_at
  mounted,     \* whether the component is active
  userId,      \* the userId prop (NoUser before the activation)
  listeners,   \* "resume-uploaded" listeners: the userId each one captured
  resumes,     \* useState: the local list
  loading,     \* useState: the loading indicator
  editingId,   \* useState: id of the record being edited, or Null
  editedName,  \* useState: the draft name
  tasks,       \* bag of handler invocations awaiting their reply
  ops,         \* operations started so far
  last,        \* the most recent event: [ev, id, arg]
  toasts,      \* the notifications the most recent event raised
  calls        \* the remote calls the most recent event issued

vars == <<db, blobs, clock, mounted, userId, listeners, resumes,
          loading, editingId, editedName, tasks, ops, last, toasts, calls>>

store == <<db, blobs, clock>>
props == <<mounted, userId, listeners>>
editState == <<editingId, editedName>>

\* ------------------------------------------------------------------ records
Resume(id, user, name, at) ==
  [id |-> id, user_id |-> user, file_name |-> name, file_path |-> id,
   uploaded_at |-> at]

NoResume == Resume(Null, NoUser, <<>>, 0)

Range(s) == {s[i] : i \in 1..Len(s)}

Map(s, F(_)) == [i \in 1..Len(s) |-> F(s[i])]

\* String.prototype.trim on a sequence of characters.
RECURSIVE TrimStart(_)
TrimStart(s) ==
  IF s # <<>> /\ Head(s) = " " THEN TrimStart(Tail(s)) ELSE s

RECURSIVE TrimEnd(_)
TrimEnd(s) ==
  IF s # <<>> /\ s[Len(s)] = " " THEN TrimEnd(SubSeq(s, 1, Len(s) - 1)) ELSE s

Trim(s) == TrimEnd(TrimStart(s))

\* ------------------------------------------------------------------ store
\* .order("uploaded_at", { ascending: false })
RECURSIVE OrderByUploadedAtDesc(_)
OrderByUploadedAtDesc(S) ==
  IF S = {} THEN <<>>
  ELSE LET m == CHOOSE r \in S : \A q \in S : q.uploaded_at <= r.uploaded_at
       IN  <<m>> \o OrderByUploadedAtDesc(S \ {m})

\* The query without its .eq("user_id", userId) filter.
ListRecords_AllUsers(d, uid) == OrderByUploadedAtDesc(d)

\* from("resumes").select("*").eq("user_id", uid).order(...) over table d
ListRecords(d, uid) ==
  OrderByUploadedAtDesc({r \in d : r.user_id = uid})

\* from("resumes").update({ file_name: name }).eq("id", id)
UpdateRecord(id, name) ==
  {IF r.id = id THEN [r EXCEPT !.file_name = name] ELSE r : r \in db}

\* from("resumes").delete().eq("id", id)
DeleteRecord(id) == {r \in db : r.id # id}

\* storage.from("resumes").remove([path])
RemoveBlob(path) == blobs \ {path}

\* ------------------------------------------------------------------ tasks
\* A handler invocation suspended at an await: the call it waits on, the
\* reply the store has produced for it (error, data) and what its closure
\* captured (resume, uid = userId, snap = resumes, name = editedName).
Task(kind, call, r, uid, snap, name) ==
  [kind |-> kind, call |-> call, error |-> FALSE, data |-> <<>>,
   resume |-> r, uid |-> uid, snap |-> snap, name |-> name]

Event(ev, id, arg) == [ev |-> ev, id |-> id, arg |-> arg]

One(t) == SetToBag({t})

Pending == BagToSet(tasks)

\* An operation may start while the run's budget lasts.
CanIssue(n) == ops + n <= MaxOps

\* User input is taken while the budget lasts.
Attending == ops < MaxOps

\* The store's reply to the call of task t: ok is whether the store accepts
\* the call; a download of a path that holds no blob fails in any case.
Accepted(t, ok) ==
  ok /\ (t.call = "download" => t.resume.file_path \in blobs)

Replied(t, ok, d) ==
  [t EXCEPT !.error = ~Accepted(t, ok),
            !.data = IF Accepted(t, ok) /\ t.call = "select"
                     THEN ListRecords(d, t.uid) ELSE <<>>]

\* The store executes the call of task t.
StoreExec(t, ok) ==
  /\ db' = IF Accepted(t, ok) /\ t.call = "update"
             THEN UpdateRecord(t.resume.id, t.name)
           ELSE IF Accepted(t, ok) /\ t.call = "delete"
             THEN DeleteRecord(t.resume.id)
           ELSE db
  /\ blobs' = IF Accepted(t, ok) /\ t.call = "remove"
              THEN RemoveBlob(t.resume.file_path) ELSE blobs
  /\ UNCHANGED clock

\* A handler reaches an await: the call of t goes out and t is suspended.
Await(t, ok) ==
  /\ StoreExec(t, ok)
  /\ tasks' = tasks (+) One(Replied(t, ok, db))

\* The cards are rendered from resumes once loading is over (lines 150-183).
Rendered(r) == mounted /\ ~loading /\ r \in Range(resumes)

\* ------------------------------------------------------------------ fetch
\* fetchResumes up to the await: the query carries the captured userId.
fetchResumes(uid) == Task("fetch", "select", NoResume, uid, <<>>, <<>>)

\* fetchResumes after the await, with setLoading(false) at the end of the
\* try block instead of in a finally block.
fetchResumesDone_NoFinally(t) ==
  /\ t.kind = "fetch"
  /\ tasks' = tasks (-) One(t)
  /\ resumes' = IF mounted /\ ~t.error THEN t.data ELSE resumes
  /\ loading' = IF mounted /\ ~t.error THEN FALSE ELSE loading
  /\ toasts' = IF t.error THEN <<"Failed to load resumes">> ELSE <<>>
  /\ calls' = <<>>
  /\ last' = Event("selectReply", Null, ~t.error)
  /\ UNCHANGED <<store, props, editState, ops>>

\* fetchResumes after the await, sending the query once more when it failed.
fetchResumesDone_Retry(t) ==
  /\ t.kind = "fetch"
  /\ IF t.error
     THEN /\ tasks' = (tasks (-) One(t))
                        (+) One(Replied(fetchResumes(t.uid), TRUE, db))
          /\ calls' = <<"select">>
          /\ UNCHANGED <<resumes, loading>>
     ELSE /\ tasks' = tasks (-) One(t)
          /\ calls' = <<>>
          /\ resumes' = IF mounted THEN t.data ELSE resumes
          /\ loading' = IF mounted THEN FALSE ELSE loading
  /\ toasts' = IF t.error THEN <<"Failed to load resumes">> ELSE <<>>
  /\ last' = Event("selectReply", Null, ~t.error)
  /\ UNCHANGED <<store, props, editState, ops>>

\* fetchResumes after the await (lines 38-51).  The notification is the
\* message's fixed part.
fetchResumesDone(t) ==
  /\ t.kind = "fetch"
  /\ tasks' = tasks (-) One(t)
  /\ resumes' = IF mounted /\ ~t.error THEN t.data ELSE resumes
  /\ loading' = IF mounted THEN FALSE ELSE loading
  /\ toasts' = IF t.error THEN <<"Failed to load resumes">> ELSE <<>>
  /\ calls' = <<>>
  /\ last' = Event("selectReply", Null, ~t.error)
  /\ UNCHANGED <<store, props, editState, ops>>

\* ------------------------------------------------------------------ effect
\* The component becomes active: initial state (lines 23-26), then the
\* effect (lines 54-65).  One activation per run.
Mount(u, ok) ==
  /\ ~mounted
  /\ userId = NoUser
  /\ CanIssue(1)
  /\ mounted' = TRUE
  /\ userId' = u
  /\ resumes' = <<>>
  /\ loading' = TRUE
  /\ editingId' = Null
  /\ editedName' = <<>>
  /\ Await(fetchResumes(u), ok)
  /\ ops' = ops + 1
  /\ listeners' = Append(listeners, u)
  /\ calls' = <<"select">>
  /\ toasts' = <<>>
  /\ last' = Event("mount", Null, TRUE)

\* The effect re-run on a userId change without the cleanup of the previous
\* run: the old listener stays registered.
ChangeUser_NoCleanup(u, ok) ==
  /\ mounted
  /\ u # userId
  /\ CanIssue(1)
  /\ userId' = u
  /\ Await(fetchResumes(u), ok)
  /\ ops' = ops + 1
  /\ listeners' = Append(listeners, u)
  /\ calls' = <<"select">>
  /\ toasts' = <<>>
  /\ last' = Event("userChange", Null, TRUE)
  /\ UNCHANGED <<mounted, resumes, loading, editState>>

\* The userId prop changes: the effect's cleanup, then the effect again.
ChangeUser(u, ok) ==
  /\ mounted
  /\ u # userId
  /\ CanIssue(1)
  /\ userId' = u
  /\ Await(fetchResumes(u), ok)
  /\ ops' = ops + 1
  /\ listeners' = Append(SubSeq(listeners, 1, Len(listeners) - 1), u)
  /\ calls' = <<"select">>
  /\ toasts' = <<>>
  /\ last' = Event("userChange", Null, TRUE)
  /\ UNCHANGED <<mounted, resumes, loading, editState>>

\* The component is deactivated: the effect's cleanup; the instance's state
\* is discarded with it.
Unmount ==
  /\ mounted
  /\ Attending
  /\ mounted' = FALSE
  /\ listeners' = SubSeq(listeners, 1, Len(listeners) - 1)
  /\ resumes' = <<>>
  /\ loading' = TRUE
  /\ editingId' = Null
  /\ editedName' = <<>>
  /\ calls' = <<>>
  /\ toasts' = <<>>
  /\ last' = Event("unmount", Null, TRUE)
  /\ UNCHANGED <<store, userId, tasks, ops>>

\* The upload flow stores a new file and broadcasts "resume-uploaded"; every
\* registered listener runs handleResumeUploaded, i.e. fetchResumes.
Upload(u, name, ok) ==
  LET id == clock + 1
      stored == db \cup {Resume(id, u, name, clock + 1)}
  IN
  /\ CanIssue(1)
  /\ db' = stored
  /\ blobs' = blobs \cup {id}
  /\ clock' = clock + 1
  /\ tasks' = tasks (+)
       SetToBag({Replied(fetchResumes(listeners[i]), ok, stored) :
                   i \in 1..Len(listeners)})
  /\ ops' = ops + 1
  /\ calls' = [i \in 1..Len(listeners) |-> "select"]
  /\ toasts' = <<>>
  /\ last' = Event("uploaded", id, TRUE)
  /\ UNCHANGED <<props, resumes, loading, editState>>

\* ------------------------------------------------------------------ download
\* handleDownload up to the await (lines 67-73).
handleDownload(r, ok) ==
  /\ Rendered(r)
  /\ CanIssue(1)
  /\ Await(Task("download", "download", r, userId, <<>>, <<>>), ok)
  /\ ops' = ops + 1
  /\ calls' = <<"download">>
  /\ toasts' = <<>>
  /\ last' = Event("clickDownload", r.id, TRUE)
  /\ UNCHANGED <<props, resumes, loading, editState>>

\* handleDownload after the await (lines 75-95).  The notification is the
\* message's fixed part.
handleDownloadDone(t) ==
  /\ t.kind = "download"
  /\ tasks' = tasks (-) One(t)
  /\ toasts' = IF t.error THEN <<"Failed to download">>
                          ELSE <<"Resume downloaded">>
  /\ calls' = <<>>
  /\ last' = Event("downloadReply", t.resume.id, ~t.error)
  /\ UNCHANGED <<store, props, resumes, loading, editState, ops>>

\* ------------------------------------------------------------------ rename
\* The edit button (lines 225-228); it is also pressed while a reply is
\* outstanding.
StartEdit(r) ==
  /\ Rendered(r)
  /\ (Attending \/ tasks # EmptyBag)
  /\ editingId # r.id
  /\ editingId' = r.id
  /\ editedName' = r.file_name
  /\ calls' = <<>>
  /\ toasts' = <<>>
  /\ last' = Event("clickEdit", r.id, TRUE)
  /\ UNCHANGED <<store, props, resumes, loading, tasks, ops>>

\* The input of the record being edited is rendered (line 201).
EditorShown(r) == Rendered(r) /\ editingId = r.id

\* onChange of the input (line 205).
ChangeDraft(r, d) ==
  /\ EditorShown(r)
  /\ Attending
  /\ d # editedName
  /\ editedName' = d
  /\ calls' = <<>>
  /\ toasts' = <<>>
  /\ last' = Event("change", r.id, TRUE)
  /\ UNCHANGED <<store, props, resumes, loading, editingId, tasks, ops>>

\* Escape in the input without setEditedName("").
CancelEdit_KeepDraft(r) ==
  /\ EditorShown(r)
  /\ Attending
  /\ editingId' = Null
  /\ calls' = <<>>
  /\ toasts' = <<>>
  /\ last' = Event("escape", r.id, TRUE)
  /\ UNCHANGED <<store, props, resumes, loading, editedName, tasks, ops>>

\* Escape in the input (lines 209-212).
CancelEdit(r) ==
  /\ EditorShown(r)
  /\ Attending
  /\ editingId' = Null
  /\ editedName' = <<>>
  /\ calls' = <<>>
  /\ toasts' = <<>>
  /\ last' = Event("escape", r.id, TRUE)
  /\ UNCHANGED <<store, props, resumes, loading, tasks, ops>>

\* The guard of handleRename without the trim().
RenameDiscarded_NoTrim(r, draft) == draft = <<>> \/ draft = r.file_name

\* The guard of handleRename (line 99): nothing to rename.
RenameDiscarded(r, draft) == Trim(draft) = <<>> \/ draft = r.file_name

\* handleRename up to the await, run by onBlur or Enter (lines 206-208):
\* discard the edit, or send the update with the draft as it stands.
handleRename(r, ok) ==
  /\ EditorShown(r)
  /\ Attending
  /\ IF RenameDiscarded(r, editedName)
     THEN /\ ok
          /\ editingId' = Null
          /\ editedName' = <<>>
          /\ calls' = <<>>
          /\ UNCHANGED <<store, tasks, ops>>
     ELSE /\ CanIssue(1)
          /\ Await(Task("rename", "update", r, userId, resumes, editedName), ok)
          /\ ops' = ops + 1
          /\ calls' = <<"update">>
          /\ UNCHANGED editState
  /\ toasts' = <<>>
  /\ last' = Event("commit", r.id, TRUE)
  /\ UNCHANGED <<props, resumes, loading>>

\* resumes.map(r => r.id === resume.id ? { ...r, file_name } : r) (113-115)
PatchName(list, id, name) ==
  Map(list, LAMBDA r : IF r.id = id THEN [r EXCEPT !.file_name = name] ELSE r)

\* handleRename after the await, leaving edit mode in a finally block.
handleRenameDone_ClearAlways(t) ==
  /\ t.kind = "rename"
  /\ tasks' = tasks (-) One(t)
  /\ resumes' = IF mounted /\ ~t.error
                THEN PatchName(t.snap, t.resume.id, t.name) ELSE resumes
  /\ editingId' = IF mounted THEN Null ELSE editingId
  /\ editedName' = IF mounted THEN <<>> ELSE editedName
  /\ toasts' = IF t.error THEN <<"Failed to rename resume">>
                          ELSE <<"Resume renamed successfully">>
  /\ calls' = <<>>
  /\ last' = Event("updateReply", t.resume.id, ~t.error)
  /\ UNCHANGED <<store, props, loading, ops>>

\* handleRename after the await, patching the list before the check of error.
handleRenameDone_PatchFirst(t) ==
  /\ t.kind = "rename"
  /\ tasks' = tasks (-) One(t)
  /\ resumes' = IF mounted THEN PatchName(t.snap, t.resume.id, t.name)
                ELSE resumes
  /\ IF t.error
     THEN /\ toasts' = <<"Failed to rename resume">>
          /\ UNCHANGED editState
     ELSE /\ editingId' = IF mounted THEN Null ELSE editingId
          /\ editedName' = IF mounted THEN <<>> ELSE editedName
          /\ toasts' = <<"Resume renamed successfully">>
  /\ calls' = <<>>
  /\ last' = Event("updateReply", t.resume.id, ~t.error)
  /\ UNCHANGED <<store, props, loading, ops>>

\* handleRename after the await (lines 111-122).
handleRenameDone(t) ==
  /\ t.kind = "rename"
  /\ tasks' = tasks (-) One(t)
  /\ IF t.error
     THEN /\ toasts' = <<"Failed to rename resume">>
          /\ UNCHANGED <<resumes, editState>>
     ELSE /\ resumes' = IF mounted THEN PatchName(t.snap, t.resume.id, t.name)
                        ELSE resumes
          /\ editingId' = IF mounted THEN Null ELSE editingId
          /\ editedName' = IF mounted THEN <<>> ELSE editedName
          /\ toasts' = <<"Resume renamed successfully">>
  /\ calls' = <<>>
  /\ last' = Event("updateReply", t.resume.id, ~t.error)
  /\ UNCHANGED <<store, props, loading, ops>>

\* ------------------------------------------------------------------ delete
\* handleDelete without the confirm prompt's check.
handleDelete_NoConfirm(r, answer, ok) ==
  /\ Rendered(r)
  /\ Attending
  /\ CanIssue(1)
  /\ Await(Task("delete", "remove", r, userId, resumes, <<>>), ok)
  /\ ops' = ops + 1
  /\ calls' = <<"remove">>
  /\ toasts' = <<>>
  /\ last' = Event("clickDelete", r.id, answer)
  /\ UNCHANGED <<props, resumes, loading, editState>>

\* handleDelete with the two remote calls swapped: the record deletion goes
\* out first.
handleDelete_RecordFirst(r, answer, ok) ==
  /\ Rendered(r)
  /\ Attending
  /\ IF ~answer
     THEN /\ ok
          /\ calls' = <<>>
          /\ UNCHANGED <<store, tasks, ops>>
     ELSE /\ CanIssue(1)
          /\ Await(Task("delete", "delete", r, userId, resumes, <<>>), ok)
          /\ ops' = ops + 1
          /\ calls' = <<"delete">>
  /\ toasts' = <<>>
  /\ last' = Event("clickDelete", r.id, answer)
  /\ UNCHANGED <<props, resumes, loading, editState>>

\* handleDelete up to the first await (lines 125-131); answer is what the
\* user replied to the confirm prompt.
handleDelete(r, answer, ok) ==
  /\ Rendered(r)
  /\ Attending
  /\ IF ~answer
     THEN /\ ok
          /\ calls' = <<>>
          /\ UNCHANGED <<store, tasks, ops>>
     ELSE /\ CanIssue(1)
          /\ Await(Task("delete", "remove", r, userId, resumes, <<>>), ok)
          /\ ops' = ops + 1
          /\ calls' = <<"remove">>
  /\ toasts' = <<>>
  /\ last' = Event("clickDelete", r.id, answer)
  /\ UNCHANGED <<props, resumes, loading, editState>>

\* handleDelete between the two awaits (lines 133-138).
handleDeleteRemoved(t, ok) ==
  /\ t.kind = "delete" /\ t.call = "remove"
  /\ IF t.error
     THEN /\ ok
          /\ tasks' = tasks (-) One(t)
          /\ toasts' = <<"Failed to delete resume">>
          /\ calls' = <<>>
          /\ UNCHANGED store
     ELSE LET next == [t EXCEPT !.call = "delete"] IN
          /\ StoreExec(next, ok)
          /\ tasks' = (tasks (-) One(t)) (+) One(Replied(next, ok, db))
          /\ toasts' = <<>>
          /\ calls' = <<"delete">>
  /\ last' = Event("removeReply", t.resume.id, ~t.error)
  /\ UNCHANGED <<props, resumes, loading, editState, ops>>

\* resumes.filter(r => r.id !== resume.id) (line 142)
WithoutId(list, id) == SelectSeq(list, LAMBDA r : r.id # id)

\* handleDelete after the second await, without the check of dbError.
handleDeleteDone_IgnoreError(t) ==
  /\ t.kind = "delete" /\ t.call = "delete"
  /\ tasks' = tasks (-) One(t)
  /\ resumes' = IF mounted THEN SelectSeq(t.snap, LAMBDA r : r.id # t.resume.id)
                ELSE resumes
  /\ toasts' = <<"Resume deleted">>
  /\ calls' = <<>>
  /\ last' = Event("deleteReply", t.resume.id, ~t.error)
  /\ UNCHANGED <<store, props, loading, editState, ops>>

\* handleDelete after the second await (lines 140-147).
handleDeleteDone(t) ==
  /\ t.kind = "delete" /\ t.call = "delete"
  /\ tasks' = tasks (-) One(t)
  /\ IF t.error
     THEN /\ toasts' = <<"Failed to delete resume">>
          /\ UNCHANGED resumes
     ELSE /\ resumes' = IF mounted THEN WithoutId(t.snap, t.resume.id)
                        ELSE resumes
          /\ toasts' = <<"Resume deleted">>
  /\ calls' = <<>>
  /\ last' = Event("deleteReply", t.resume.id, ~t.error)
  /\ UNCHANGED <<store, props, loading, editState, ops>>

\* ------------------------------------------------------------------ spec
Init ==
  /\ db = {}
  /\ blobs = {}
  /\ clock = 0
  /\ mounted = FALSE
  /\ userId = NoUser
  /\ listeners = <<>>
  /\ resumes = <<>>
  /\ loading = TRUE
  /\ editingId = Null
  /\ editedName = <<>>
  /\ tasks = EmptyBag
  /\ ops = 0
  /\ last = Event("init", Null, TRUE)
  /\ toasts = <<>>
  /\ calls = <<>>

Next ==
  \/ \E u \in Users, ok \in BOOLEAN : Mount(u, ok)
  \/ \E u \in Users, ok \in BOOLEAN : ChangeUser(u, ok)
  \/ Unmount
  \/ \E u \in Users, n \in UploadNames, ok \in BOOLEAN : Upload(u, n, ok)
  \/ \E t \in Pending : fetchResumesDone(t)
  \/ \E r \in Range(resumes), ok \in BOOLEAN : handleDownload(r, ok)
  \/ \E t \in Pending : handleDownloadDone(t)
  \/ \E r \in Range(resumes) : StartEdit(r)
  \/ \E r \in Range(resumes), d \in Drafts : ChangeDraft(r, d)
  \/ \E r \in Range(resumes) : CancelEdit(r)
  \/ \E r \in Range(resumes), ok \in BOOLEAN : handleRename(r, ok)
  \/ \E t \in Pending : handleRenameDone(t)
  \/ \E r \in Range(resumes), answer, ok \in BOOLEAN : handleDelete(r, answer, ok)
  \/ \E t \in Pending, ok \in BOOLEAN : handleDeleteRemoved(t, ok)
  \/ \E t \in Pending : handleDeleteDone(t)

Spec == Init /\ [][Next]_vars

\* ------------------------------------------------------------------ claims
Ids(S) == {r.id : r \in S}

HasEntry(list, id) == \E i \in 1..Len(list) : list[i].id = id

Failed(ev) == last.ev = ev /\ ~last.arg

Succeeded(ev) == last.ev = ev /\ last.arg

\* C1: a confirmed delete issues the blob removal first and the record
\* deletion only from the continuation of a successful blob removal; a
\* failed blob removal issues nothing more and leaves the store's records
\* and the local list as they were; hence whenever a record-deletion call is
\* in flight or a record is gone from the store, its blob is gone too.
C1_FirstCallIsRemove == Succeeded("clickDelete") => calls = <<"remove">>

C1_DeleteOnlyAfterRemove ==
  \A i \in 1..Len(calls) :
    calls[i] = "delete" => Succeeded("removeReply") /\ last.id \notin blobs

C1_NoOrphanedBlob ==
  /\ \A id \in 1..clock : id \notin Ids(db) => id \notin blobs
  /\ \A t \in Pending : t.call = "delete" => t.resume.file_path \notin blobs

C1_RemoveFailureStops ==
  Failed("removeReply")' =>
    /\ calls' = <<>>
    /\ db' = db
    /\ resumes' = resumes
    /\ \A t \in BagToSet(tasks') : CopiesIn(t, tasks') <= CopiesIn(t, tasks)

C1_BlobBeforeRecord ==
  [][/\ C1_FirstCallIsRemove'
     /\ C1_DeleteOnlyAfterRemove'
     /\ C1_NoOrphanedBlob'
     /\ C1_RemoveFailureStops]_vars

\* C1 witness: a blob removal has succeeded, the record deletion went out
\* and the record is gone from the store.
C1_Witness ==
  /\ Succeeded("removeReply")
  /\ calls = <<"delete">>
  /\ last.id \notin Ids(db)
  /\ last.id \notin blobs

\* C2: the entry leaves the local list, and "Resume deleted" is shown, only
\* in the continuation of a successful record deletion, by which time the
\* blob and the record are gone from the store; no other step of delete
\* touches the local list, and a failed record deletion keeps the list and
\* shows the error notification.
C2_SuccessToastOnlyAfterBoth ==
  (\E i \in 1..Len(toasts) : toasts[i] = "Resume deleted") =>
    /\ Succeeded("deleteReply")
    /\ last.id \notin Ids(db)
    /\ last.id \notin blobs
    /\ mounted => ~HasEntry(resumes, last.id)

C2_OtherStepsKeepList ==
  (\/ last'.ev \in {"clickDelete", "removeReply"}
   \/ Failed("deleteReply")') => resumes' = resumes

C2_RecordFailureShown ==
  Failed("deleteReply")' => toasts' = <<"Failed to delete resume">>

C2_RemovedOnlyAfterBoth ==
  [][/\ C2_SuccessToastOnlyAfterBoth'
     /\ C2_OtherStepsKeepList
     /\ C2_RecordFailureShown]_vars

\* C2 witness: the blob removal succeeded, the record deletion failed, the
\* entry is still listed and the error notification is up.
C2_Witness ==
  /\ Failed("deleteReply")
  /\ mounted
  /\ HasEntry(resumes, last.id)
  /\ last.id \notin blobs
  /\ toasts = <<"Failed to delete resume">>

\* C3 (as claimed): when a rename's success is applied, the local list
\* before and after has the same entries in the same order, and only the
\* file_name of the entry with the renamed record's id may differ.
C3_OnlyTheNameDiffers ==
  (Succeeded("updateReply")' /\ mounted) =>
    /\ Len(resumes') = Len(resumes)
    /\ \A i \in 1..Len(resumes) :
         /\ [resumes'[i] EXCEPT !.file_name = <<>>]
              = [resumes[i] EXCEPT !.file_name = <<>>]
         /\ resumes[i].id # last'.id => resumes'[i] = resumes[i]

C3_RenamePatchesOneEntry == [][C3_OnlyTheNameDiffers]_vars

\* C4: committing a draft that is empty, all whitespace, or the record's
\* current name issues no call, leaves the store, the pending calls and the
\* local list as they were, and returns the edit session to Idle.
WhitespaceOnly(s) == \A i \in 1..Len(s) : s[i] = " "

C4_NothingToRename ==
  \/ WhitespaceOnly(editedName)
  \/ \E i \in 1..Len(resumes) :
       resumes[i].id = editingId /\ resumes[i].file_name = editedName

C4_DiscardStep ==
  (last'.ev = "commit" /\ C4_NothingToRename) =>
    /\ calls' = <<>>
    /\ toasts' = <<>>
    /\ tasks' = tasks
    /\ db' = db /\ blobs' = blobs
    /\ resumes' = resumes
    /\ editingId' = Null
    /\ editedName' = <<>>

C4_EmptyDraftDiscarded == [][C4_DiscardStep]_vars

\* C4 witness: a commit has just discarded the edit.
C4_Witness ==
  /\ last.ev = "commit"
  /\ calls = <<>>
  /\ editingId = Null
  /\ HasEntry(resumes, last.id)

\* C5 (as claimed): once the update call of a rename has completed, with
\* either outcome, no record is in Editing state.
C5_IdleAfterRename ==
  (last.ev = "updateReply" /\ mounted) => editingId = Null

\* C5 (amended): a successful rename leaves the edit session Idle (editing
\* id and draft cleared); a failed rename leaves the edit session as it was.
C5_Step ==
  /\ (Succeeded("updateReply")' /\ mounted) =>
        editingId' = Null /\ editedName' = <<>>
  /\ Failed("updateReply")' =>
        editingId' = editingId /\ editedName' = editedName

C5_ClearedOnSuccessOnly == [][C5_Step]_vars

\* C5 witness: a rename has failed and its record is still being edited.
C5_Witness ==
  /\ Failed("updateReply")
  /\ mounted
  /\ editingId = last.id
  /\ editedName # <<>>

\* C6: the reply to a successful fetch is exactly the requested user's
\* records at the time the store ran the query, newest first, and when it is
\* delivered the local list becomes that reply and nothing else.
SortedDesc(list) ==
  \A i, j \in 1..Len(list) :
    i < j => list[i].uploaded_at > list[j].uploaded_at

OwnRecords(d, uid) == {r \in d : r.user_id = uid}

C6_ReplyIsTheUsersRecords ==
  \A t \in BagToSet(tasks') :
    (t.kind = "fetch" /\ ~t.error /\ CopiesIn(t, tasks') > CopiesIn(t, tasks)) =>
      /\ Range(t.data) = OwnRecords(db', t.uid)
      /\ Len(t.data) = Cardinality(OwnRecords(db', t.uid))
      /\ SortedDesc(t.data)

C6_ListBecomesReply ==
  (Succeeded("selectReply")' /\ mounted) =>
    \E t \in Pending :
      /\ t.kind = "fetch" /\ ~t.error
      /\ CopiesIn(t, tasks') < CopiesIn(t, tasks)
      /\ resumes' = t.data

C6_FetchReplacesList ==
  [][C6_ReplyIsTheUsersRecords /\ C6_ListBecomesReply]_vars

\* C6 witness: a successful fetch has put two or more of the user's records
\* in the list while the store also holds another user's record.
C6_Witness ==
  /\ Succeeded("selectReply")
  /\ mounted
  /\ Len(resumes) >= 2
  /\ \E r \in db : r.user_id # userId

\* C7: every fetch that completes clears the loading indicator; a failed one
\* leaves the local list as it was and shows the error notification.
C7_Step ==
  /\ (last'.ev = "selectReply" /\ mounted) => loading' = FALSE
  /\ Failed("selectReply")' =>
        resumes' = resumes /\ toasts' = <<"Failed to load resumes">>

C7_FailedFetchKeepsList == [][C7_Step]_vars

\* C7 witness: a fetch has failed; the list still holds what it held and the
\* loading indicator is off.
C7_Witness ==
  /\ Failed("selectReply")
  /\ mounted
  /\ ~loading
  /\ resumes # <<>>
  /\ toasts = <<"Failed to load resumes">>

\* C8: a delete answered "no" issues no remote call, shows no notification
\* and leaves the store, the pending calls and the local list as they were.
C8_Step ==
  Failed("clickDelete")' =>
    /\ calls' = <<>>
    /\ toasts' = <<>>
    /\ tasks' = tasks
    /\ db' = db /\ blobs' = blobs
    /\ resumes' = resumes

C8_DeclinedDeleteDoesNothing == [][C8_Step]_vars

\* C8 witness: the prompt of a listed record has just been answered "no".
C8_Witness ==
  /\ Failed("clickDelete")
  /\ mounted
  /\ HasEntry(resumes, last.id)
  /\ last.id \in Ids(db)

\* C9 (as claimed): with no remote call failing, once no call is pending the
\* local list is the store's records of the current user.
NextNoFail == Next /\ \A t \in BagToSet(tasks') : ~t.error

SpecNoFail == Init /\ [][NextNoFail]_vars

C9_ListConverges ==
  (mounted /\ tasks = EmptyBag) =>
    /\ Range(resumes) = OwnRecords(db, userId)
    /\ Len(resumes) = Cardinality(OwnRecords(db, userId))

\* C10: a download, whatever its outcome, and a failed rename leave the
\* local list as it was, and the failure of either shows its error
\* notification.
C10_Step ==
  /\ last'.ev \in {"clickDownload", "downloadReply"} => resumes' = resumes
  /\ Failed("downloadReply")' => toasts' = <<"Failed to download">>
  /\ Failed("updateReply")' =>
        resumes' = resumes /\ toasts' = <<"Failed to rename resume">>

C10_ReadOnlyOutcomes == [][C10_Step]_vars

\* C10 witness: a download has failed with the list on display.
C10_Witness ==
  /\ Failed("downloadReply")
  /\ mounted
  /\ HasEntry(resumes, last.id)
  /\ toasts = <<"Failed to download">>

\* C11: the activation issues exactly one fetch, for the user it is given; a
\* userId change issues exactly one fetch, for the new user; a
\* "resume-uploaded" signal issues exactly one fetch for the current user
\* while the component is active and none once it is deactivated; no other
\* event issues a fetch; and the component holds exactly one subscription,
\* for the current user, while active and none otherwise.
FetchesPending(b, uid) ==
  BagCardinality([t \in {x \in BagToSet(b) : x.kind = "fetch" /\ x.uid = uid}
                    |-> b[t]])

FetchesIssued(uid) == FetchesPending(tasks', uid) - FetchesPending(tasks, uid)

C11_OneSubscription ==
  IF mounted THEN listeners = <<userId>> ELSE listeners = <<>>

C11_Step ==
  /\ last'.ev \in {"mount", "userChange"} =>
       /\ calls' = <<"select">>
       /\ \A u \in Users :
            FetchesIssued(u) = IF u = userId' THEN 1 ELSE 0
  /\ last'.ev = "uploaded" =>
       /\ calls' = IF mounted THEN <<"select">> ELSE <<>>
       /\ \A u \in Users :
            FetchesIssued(u) = IF mounted /\ u = userId THEN 1 ELSE 0
  /\ last'.ev \notin {"mount", "userChange", "uploaded"} =>
       /\ \A i \in 1..Len(calls') : calls'[i] # "select"
       /\ \A u \in Users : FetchesIssued(u) <= 0

C11_FetchTriggers == [][C11_Step /\ C11_OneSubscription']_vars

\* C11 witness: after an activation and the deactivation, with the store
\* holding a record, a signal has just been broadcast and no fetch went out.
C11_Witness ==
  /\ last.ev = "uploaded"
  /\ ~mounted
  /\ userId # NoUser
  /\ calls = <<>>
  /\ \E r \in db : r.id # last.id /\ r.user_id # userId

\* C12: the edit button of a listed record puts that record in Editing state
\* with the draft set to the name the list shows for it; Escape in Editing
\* state returns the session to Idle with the draft cleared, issues no call
\* and leaves the store, the pending calls and the local list as they were;
\* and at most one entry of the list is in Editing state.
EditingEntries == {i \in 1..Len(resumes) : resumes[i].id = editingId}

C12_AtMostOneEditing ==
  /\ Cardinality(EditingEntries) <= 1
  /\ editingId = Null => EditingEntries = {}

C12_Step ==
  /\ last'.ev = "clickEdit" =>
       /\ editingId' = last'.id
       /\ \E i \in 1..Len(resumes) :
            resumes[i].id = last'.id /\ editedName' = resumes[i].file_name
       /\ calls' = <<>>
       /\ tasks' = tasks
       /\ resumes' = resumes
  /\ last'.ev = "escape" =>
       /\ editingId = last'.id
       /\ editingId' = Null
       /\ editedName' = <<>>
       /\ calls' = <<>>
       /\ toasts' = <<>>
       /\ tasks' = tasks
       /\ db' = db /\ blobs' = blobs
       /\ resumes' = resumes

C12_EditSession == [][C12_Step /\ C12_AtMostOneEditing']_vars

\* C12 witness: Escape has just closed the edit session of a listed record
\* while the list holds another record as well.
C12_Witness ==
  /\ last.ev = "escape"
  /\ mounted
  /\ editingId = Null
  /\ editedName = <<>>
  /\ HasEntry(resumes, last.id)
  /\ Len(resumes) >= 2

\* C13: the continuation that receives a failed reply (list, download,
\* update, blob removal, record deletion) raises exactly one notification,
\* the error notification of its operation, ends its invocation, issues no
\* call and leaves the store and the component's activation as they were;
\* and no event issues the same call twice: a reply issues nothing, except
\* a successful blob removal, which issues the record deletion once.
ReplyEvents ==
  {"selectReply", "downloadReply", "updateReply", "removeReply", "deleteReply"}

ErrorToast(ev) ==
  CASE ev = "selectReply" -> "Failed to load resumes"
    [] ev = "downloadReply" -> "Failed to download"
    [] ev = "updateReply" -> "Failed to rename resume"
    [] ev \in {"removeReply", "deleteReply"} -> "Failed to delete resume"

C13_FailureStep ==
  (last'.ev \in ReplyEvents /\ ~last'.arg) =>
    /\ toasts' = <<ErrorToast(last'.ev)>>
    /\ calls' = <<>>
    /\ BagCardinality(tasks') = BagCardinality(tasks) - 1
    /\ \A t \in BagToSet(tasks') : CopiesIn(t, tasks') <= CopiesIn(t, tasks)
    /\ db' = db /\ blobs' = blobs
    /\ mounted' = mounted /\ userId' = userId /\ listeners' = listeners

C13_NoRepeatedCall ==
  /\ \A i, j \in 1..Len(calls') : calls'[i] = calls'[j] => i = j
  /\ last'.ev \in ReplyEvents =>
       \/ calls' = <<>>
       \/ calls' = <<"delete">> /\ Succeeded("removeReply")'
  /\ BagCardinality(tasks') <= BagCardinality(tasks) + Len(calls')

C13_FailuresNotified == [][C13_FailureStep /\ C13_NoRepeatedCall]_vars

\* C13 witness: a blob removal has failed; its one notification is up, no
\* call went out, nothing is pending and the record and its blob are still
\* in the store.
C13_Witness ==
  /\ Failed("removeReply")
  /\ toasts = <<"Failed to delete resume">>
  /\ calls = <<>>
  /\ tasks = EmptyBag
  /\ last.id \in Ids(db)
  /\ last.id \in blobs

\* C14 (as claimed): once a delete of a record has fully succeeded (its
\* record is gone from the store, no delete of it is still awaiting a reply,
\* and the list holds no entry with its id), no step puts an entry with that
\* id back in the list.
FullyDeleted(id) ==
  /\ mounted
  /\ id \notin Ids(db)
  /\ id \notin blobs
  /\ \A t \in Pending : t.kind = "delete" => t.resume.id # id
  /\ ~HasEntry(resumes, id)

C14_Step ==
  \A id \in 1..clock : FullyDeleted(id) => ~HasEntry(resumes', id)

C14_DeletedStaysGone == [][C14_Step]_vars

\* C15 (as claimed): with no remote call failing, once no fetch is pending
\* the local list is a fetch result for the current user: it is ordered
\* newest first and every entry is a record of the current user, none a
\* record fetched for a previous user.
FetchPending == \E t \in Pending : t.kind = "fetch"

C15_ListIsOfCurrentUser ==
  (mounted /\ ~FetchPending) =>
    /\ \A i \in 1..Len(resumes) : resumes[i].user_id = userId
    /\ SortedDesc(resumes)

\* C16 (as claimed): when the update call of a rename of record A completes,
\* with either outcome, while the edit session is on another record B, the
\* session is still on B with the same draft afterwards.
C16_Step ==
  (last'.ev = "updateReply" /\ mounted /\ editingId \notin {Null, last'.id}) =>
    editingId' = editingId /\ editedName' = editedName

C16_OtherSessionKept == [][C16_Step]_vars

\* C17 (as claimed, in the case it names): within one edit session, a commit
\* that sent an update call is not followed, while that call is still
\* pending and the session still open on the same record, by another commit
\* that sends an update call.
UpdateSent == last.ev = "commit" /\ calls = <<"update">>

C17_Step ==
  (UpdateSent /\ editingId = last.id) =>
    ~(UpdateSent' /\ last'.id = last.id)

C17_OneUpdatePerSession == [][C17_Step]_vars
====
